---------------------------- MODULE Spec2Model ----------------------------
(***************************************************************************)
(* A model of the stringencoders codecs:                                   *)
(*   - the URL escape codec of trunk/src/modp_burl.c (modp_burl_encode,    *)
(*     modp_burl_min_encode, the two *_strlen functions, modp_burl_decode) *)
(*   - the web-safe base64 codec declared in src/modp_b64w.h, with its     *)
(*     size macros and its two C++ wrappers.                               *)
(* Bytes are the integers 0..255; a buffer is a sequence of bytes.  A      *)
(* destination buffer holds what the function wrote, terminator included.  *)
(* modp_burl_decode is modelled one loop iteration per action, the other   *)
(* functions are single steps.                                             *)
(***************************************************************************)
EXTENDS Integers, Sequences, FiniteSets

VARIABLES
    charSigned,  \* the build: is plain char a signed type
    pc,          \* "idle", "encoded", "decoding", "done", "fault"
    op,          \* the function that ran last (or is running)
    prev,        \* the function whose output is the input of op ("none" if raw)
    orig,        \* the bytes given to the encoder of a chained call
    input,       \* src of op; its Len is the len argument
    dest,        \* what op wrote to dest so far
    ret,         \* the value op returned
    src,         \* modp_burl_decode: the read position, as an offset from src
    log,         \* modp_burl_decode: one record per loop iteration
    rd,          \* modp_burl_decode: the offsets of the input it read
    idx          \* modp_burl_decode: the indexes it used into gsHexDecodeMap

vars == <<charSigned, pc, op, prev, orig, input, dest, ret, src, log, rd, idx>>

(***************************************************************************)
(* Bounds of the model.                                                    *)
(***************************************************************************)
\* longest byte string given to an encoder
MaxLen == 4
\* longest string given directly to modp_burl_decode
MaxSrcLen == 4
\* longest string given directly to modp_b64w_decode
MaxB64Len == 4

\* the bytes the encoders are tried on: NUL, ' ', '%', '+', 'A', '~', 0xFF
EncBytes == {0, 32, 37, 43, 65, 126, 255}
\* the bytes modp_burl_decode is tried on directly: '%', '+', 'A' (a hex
\* digit), 'z' (none), and a byte above 127
SrcBytes == {37, 43, 65, 122, 200}
\* the bytes modp_b64w_decode is tried on directly: '+', '.', 'A', 'z'
B64Bytes == {43, 46, 65, 122}
\* characters outside the web-safe alphabet: ' ', '+', '/'
BadB64Bytes == {32, 43, 47}

SeqsUpTo(S, n) == UNION {[1..k -> S] : k \in 0..n}

Min(a, b) == IF a < b THEN a ELSE b

(***************************************************************************)
(* Arithmetic on uint32_t.                                                 *)
(***************************************************************************)
RECURSIVE BitOr(_, _)
BitOr(a, b) ==
    IF a = 0 THEN b
    ELSE IF b = 0 THEN a
    ELSE (IF a % 2 = 1 \/ b % 2 = 1 THEN 1 ELSE 0) + 2 * BitOr(a \div 2, b \div 2)

\* v << 4 in 32 bits: the top four bits are shifted out
Shl4(v) == (v % 268435456) * 16

(***************************************************************************)
(* The tables of modp_burl_data.h.                                         *)
(***************************************************************************)
IsAlnum(x) == (x \in 48..57) \/ (x \in 65..90) \/ (x \in 97..122)

\* alphanumerics and '-', '.', '_'
UrlSafe(x) == IsAlnum(x) \/ x \in {45, 46, 95}

\* the larger safe set: also '~' and ! $ ' ( ) * , / : ; ? @
UrlMinSafe(x) == UrlSafe(x) \/ x \in {126, 33, 36, 39, 40, 41, 42, 44, 47, 58, 59, 63, 64}

gsUrlEncodeMap(x) == IF UrlSafe(x) THEN x ELSE 0

gsUrlEncodeMinMap(x) == IF UrlMinSafe(x) THEN x ELSE 0

\* sHexChars[] = "0123456789ABCDEF"
sHexChars(n) == IF n < 10 THEN 48 + n ELSE 65 + (n - 10)

gsHexEncodeMap1(x) == sHexChars(x \div 16)

gsHexEncodeMap2(x) == sHexChars(x % 16)

\* 0..15 for a hex digit of either case, 256 for every other byte
gsHexDecodeMap(c) ==
    IF c \in 48..57 THEN c - 48
    ELSE IF c \in 65..70 THEN c - 65 + 10
    ELSE IF c \in 97..102 THEN c - 97 + 10
    ELSE 256

(***************************************************************************)
(* modp_burl_encode and modp_burl_min_encode: the loop writes c when the   *)
(* table gives a non-zero c, else '%' and the two hex characters of x;     *)
(* then the terminator.  The value returned is dest - deststart.           *)
(***************************************************************************)
EncodeByte(x, c) ==
    IF c # 0 THEN <<c>> ELSE <<37, gsHexEncodeMap1(x), gsHexEncodeMap2(x)>>

RECURSIVE EncodeLoop(_, _)
EncodeLoop(s, min) ==
    IF s = <<>> THEN <<>>
    ELSE LET x == Head(s)
             c == IF min THEN gsUrlEncodeMinMap(x) ELSE gsUrlEncodeMap(x)
         IN  EncodeByte(x, c) \o EncodeLoop(Tail(s), min)

modp_burl_encode(s) ==
    LET written == EncodeLoop(s, FALSE)
    IN  [dest |-> Append(written, 0), ret |-> Len(written)]

modp_burl_min_encode(s) ==
    LET written == EncodeLoop(s, TRUE)
    IN  [dest |-> Append(written, 0), ret |-> Len(written)]

(***************************************************************************)
(* modp_burl_encode_strlen and modp_burl_min_encode_strlen: count 1 for a  *)
(* byte whose table entry is non-zero, 3 for any other.                    *)
(***************************************************************************)
\* variant: an escaped byte counted as 2
RECURSIVE StrlenEscapeAsTwo(_)
StrlenEscapeAsTwo(s) ==
    IF s = <<>> THEN 0
    ELSE (IF gsUrlEncodeMap(Head(s)) # 0 THEN 1 ELSE 2)
         + StrlenEscapeAsTwo(Tail(s))

RECURSIVE modp_burl_encode_strlen(_)
modp_burl_encode_strlen(s) ==
    IF s = <<>> THEN 0
    ELSE (IF gsUrlEncodeMap(Head(s)) # 0 THEN 1 ELSE 3)
         + modp_burl_encode_strlen(Tail(s))

\* variant: the two branches exchanged
RECURSIVE StrlenMinInverted(_)
StrlenMinInverted(s) ==
    IF s = <<>> THEN 0
    ELSE (IF gsUrlEncodeMinMap(Head(s)) # 0 THEN 3 ELSE 1)
         + StrlenMinInverted(Tail(s))

RECURSIVE modp_burl_min_encode_strlen(_)
modp_burl_min_encode_strlen(s) ==
    IF s = <<>> THEN 0
    ELSE (IF gsUrlEncodeMinMap(Head(s)) # 0 THEN 1 ELSE 3)
         + modp_burl_min_encode_strlen(Tail(s))

(***************************************************************************)
(* The web-safe base64 codec.  modp_b64w.h declares it and gives the size  *)
(* macros; the alphabet is A-Z a-z 0-9 '-' '_' and the padding is '.'.     *)
(***************************************************************************)
modp_b64w_encode_len(A) == ((A + 2) \div 3) * 4 + 1

modp_b64w_decode_len(A) == (A \div 4) * 3 + 2

\* variant: the terminator counted, as in modp_b64w_encode_len
EncodeStrlenPlusOne(A) == ((A + 2) \div 3) * 4 + 1

modp_b64w_encode_strlen(A) == ((A + 2) \div 3) * 4

\* '.'
CHARPAD == 46

\* the character of a 6-bit value
byteToBase64Char(v) ==
    IF v < 26 THEN 65 + v
    ELSE IF v < 52 THEN 97 + (v - 26)
    ELSE IF v < 62 THEN 48 + (v - 52)
    ELSE IF v = 62 THEN 45
    ELSE 95

\* the 6-bit value of a character, or the sentinel 64 for any other byte
base64CharToByte(c) ==
    IF c \in 65..90 THEN c - 65
    ELSE IF c \in 97..122 THEN c - 97 + 26
    ELSE IF c \in 48..57 THEN c - 48 + 52
    ELSE IF c = 45 THEN 62
    ELSE IF c = 95 THEN 63
    ELSE 64

InAlphabet(c) == base64CharToByte(c) < 64 \/ c = CHARPAD

\* 3 bytes -> 4 characters; 1 left over -> 2 characters and 2 paddings;
\* 2 left over -> 3 characters and 1 padding
RECURSIVE B64EncodeLoop(_)
B64EncodeLoop(s) ==
    IF Len(s) = 0 THEN <<>>
    ELSE IF Len(s) = 1 THEN
        <<byteToBase64Char(s[1] \div 4), byteToBase64Char((s[1] % 4) * 16),
          CHARPAD, CHARPAD>>
    ELSE IF Len(s) = 2 THEN
        <<byteToBase64Char(s[1] \div 4),
          byteToBase64Char((s[1] % 4) * 16 + s[2] \div 16),
          byteToBase64Char((s[2] % 16) * 4), CHARPAD>>
    ELSE
        <<byteToBase64Char(s[1] \div 4),
          byteToBase64Char((s[1] % 4) * 16 + s[2] \div 16),
          byteToBase64Char((s[2] % 16) * 4 + s[3] \div 64),
          byteToBase64Char(s[3] % 64)>>
        \o B64EncodeLoop(SubSeq(s, 4, Len(s)))

modp_b64w_encode(s) ==
    LET written == B64EncodeLoop(s)
    IN  [dest |-> Append(written, 0), ret |-> Len(written)]

\* the bytes of one block of 2, 3 or 4 data characters
B64Block(q) ==
    LET v == [i \in 1..4 |-> IF i <= Len(q) THEN base64CharToByte(q[i]) ELSE 0]
        b1 == v[1] * 4 + v[2] \div 16
        b2 == (v[2] % 16) * 16 + v[3] \div 4
        b3 == (v[3] % 4) * 64 + v[4]
    IN  SubSeq(<<b1, b2, b3>>, 1, Len(q) - 1)

RECURSIVE B64DecodeLoop(_)
B64DecodeLoop(s) ==
    IF Len(s) = 0 THEN <<>>
    ELSE B64Block(SubSeq(s, 1, Min(4, Len(s))))
         \o B64DecodeLoop(SubSeq(s, 5, Len(s)))

\* the input without the one or two paddings that end its last block
StripPad(s) ==
    IF Len(s) >= 1 /\ s[Len(s)] = CHARPAD
    THEN IF Len(s) >= 2 /\ s[Len(s) - 1] = CHARPAD
         THEN SubSeq(s, 1, Len(s) - 2)
         ELSE SubSeq(s, 1, Len(s) - 1)
    ELSE s

\* variant: the trailing padding is not removed before the lookups
B64DecodeKeepPad(s) ==
    LET out == B64DecodeLoop(s)
    IN  IF Len(s) % 4 # 0 THEN [dest |-> <<>>, ret |-> -1]
        ELSE IF \E i \in 1..Len(s) : base64CharToByte(s[i]) >= 64
        THEN [dest |-> <<>>, ret |-> -1]
        ELSE [dest |-> out, ret |-> Len(out)]

\* variant: the looked-up values are not tested for the sentinel
B64DecodeNoCheck(s) ==
    LET data == StripPad(s)
        out  == B64DecodeLoop(data)
    IN  IF Len(s) % 4 # 0 THEN [dest |-> <<>>, ret |-> -1]
        ELSE [dest |-> out, ret |-> Len(out)]

\* -1 unless the input is whole blocks of characters of the alphabet
modp_b64w_decode(s) ==
    LET data == StripPad(s)
        out  == B64DecodeLoop(data)
    IN  IF Len(s) % 4 # 0 THEN [dest |-> <<>>, ret |-> -1]
        ELSE IF \E i \in 1..Len(data) : base64CharToByte(data[i]) >= 64
        THEN [dest |-> <<>>, ret |-> -1]
        ELSE [dest |-> out, ret |-> Len(out)]

\* std::string x(n, '\0')
Nuls(n) == [i \in 1..n |-> 0]

\* where the buffer holds what was written, and NULs after it
Filled(buf, written) ==
    [i \in 1..Len(buf) |-> IF i <= Len(written) THEN written[i] ELSE buf[i]]

\* modp::b64w_encode: the string becomes the first d characters of x
b64w_encode(s) ==
    LET x == Nuls(modp_b64w_encode_len(Len(s)))
        r == modp_b64w_encode(s)
    IN  SubSeq(Filled(x, r.dest), 1, r.ret)

\* modp::b64w_decode: empty when d < 0, else the first d bytes of x
b64w_decode(s) ==
    LET x == Nuls(modp_b64w_decode_len(Len(s)) + 1)
        r == modp_b64w_decode(s)
    IN  IF r.ret < 0 THEN <<>> ELSE SubSeq(Filled(x, r.dest), 1, r.ret)

(***************************************************************************)
(* modp_burl_decode reads its input through a plain char.  A byte above    *)
(* 127 is a negative char where char is signed, and (uint32_t) of it is    *)
(* 2^32 + the char.  A uint32_t is held as two 16-bit halves.              *)
(***************************************************************************)
CharValue(byte) == IF charSigned /\ byte >= 128 THEN byte - 256 ELSE byte

Uint32OfChar(c) ==
    IF c < 0 THEN [hi |-> 65535, lo |-> 65536 + c] ELSE [hi |-> 0, lo |-> c]

HexIndex(byte) == Uint32OfChar(CharValue(byte))

\* the index is one of the 256 entries of gsHexDecodeMap
InTable(i) == i.hi = 0 /\ i.lo \in 0..255

\* what a read outside the table may give: any uint32_t
WildValues == {0, 10, 256, 268435461}

\* the values gsHexDecodeMap[i] may give
HexLookup(i) == IF InTable(i) THEN {gsHexDecodeMap(i.lo)} ELSE WildValues

\* variant: the high nibble is not shifted
HexPairNoShift(v1, v2) == BitOr(v1, v2)

\* d = (gsHexDecodeMap[..] << 4) | gsHexDecodeMap[..]
HexPair(v1, v2) == BitOr(Shl4(v1), v2)

srcend == Len(input)

\* variant: the first loop stops one byte later
SrcEndLoopOffByOne == srcend - 1

\* srcendloop = srcend - 2, as offsets from src: negative when len < 2
srcendloop == srcend - 2

\* if (d < 256) the byte d for 3 bytes of input, else '%' for 1
PercentStep(d) ==
    IF d < 256 THEN [n |-> 3, out |-> d] ELSE [n |-> 1, out |-> 37]

\* variant: the terminator counted in the value returned
RetCountsTerminator(d) == Len(d) + 1

\* dest - deststart, where d is what was written before the terminator
RetValue(d) == Len(d)

\* *src
Cur == input[src + 1]

\* what *(src + k) may give: the byte there, or any byte past the buffer
Bytes(p) == IF p \in 0..(Len(input) - 1) THEN {input[p + 1]} ELSE {0, 65}

\* one iteration of the loop named lp: n bytes consumed, out written
Step(lp, n, out, reads, indexes) ==
    /\ dest' = Append(dest, out)
    /\ src' = src + n
    /\ log' = Append(log, [pos |-> src, n |-> n, out |-> out, loop |-> lp])
    /\ rd' = rd \cup reads
    /\ idx' = idx \cup indexes
    /\ UNCHANGED <<charSigned, pc, op, prev, orig, input, ret>>

(***************************************************************************)
(* The state machine.                                                      *)
(***************************************************************************)
Init ==
    /\ charSigned \in BOOLEAN
    /\ pc = "idle"
    /\ op = "none"
    /\ prev = "none"
    /\ orig = <<>>
    /\ input = <<>>
    /\ dest = <<>>
    /\ ret = 0
    /\ src = 0
    /\ log = <<>>
    /\ rd = {}
    /\ idx = {}

\* a whole call of function f on b, giving r
Call(f, b, r, from, org, next) ==
    /\ op' = f
    /\ input' = b
    /\ dest' = r.dest
    /\ ret' = r.ret
    /\ prev' = from
    /\ orig' = org
    /\ pc' = next
    /\ UNCHANGED <<charSigned, src, log, rd, idx>>

Call_burl_encode ==
    /\ pc = "idle"
    /\ \E b \in SeqsUpTo(EncBytes, MaxLen) :
          Call("modp_burl_encode", b, modp_burl_encode(b), "none", <<>>, "encoded")

Call_burl_min_encode ==
    /\ pc = "idle"
    /\ \E b \in SeqsUpTo(EncBytes, MaxLen) :
          Call("modp_burl_min_encode", b, modp_burl_min_encode(b), "none", <<>>, "encoded")

Call_b64w_encode ==
    /\ pc = "idle"
    /\ \E b \in SeqsUpTo(EncBytes, MaxLen) :
          Call("modp_b64w_encode", b, modp_b64w_encode(b), "none", <<>>, "encoded")

Call_burl_encode_strlen ==
    /\ pc = "idle"
    /\ \E b \in SeqsUpTo(EncBytes, MaxLen) :
          Call("modp_burl_encode_strlen", b,
               [dest |-> <<>>, ret |-> modp_burl_encode_strlen(b)], "none", <<>>, "done")

Call_burl_min_encode_strlen ==
    /\ pc = "idle"
    /\ \E b \in SeqsUpTo(EncBytes, MaxLen) :
          Call("modp_burl_min_encode_strlen", b,
               [dest |-> <<>>, ret |-> modp_burl_min_encode_strlen(b)], "none", <<>>, "done")

\* modp::b64w_encode(s): dest is the string s after the call
Cpp_b64w_encode ==
    /\ pc = "idle"
    /\ \E b \in SeqsUpTo(EncBytes, MaxLen) :
          LET s == b64w_encode(b)
          IN  Call("b64w_encode", b, [dest |-> s, ret |-> Len(s)], "none", <<>>, "encoded")

\* the text the encoder produced, without the terminator
Text == SubSeq(dest, 1, ret)

\* s with the character at i replaced by c (i = 0: s itself)
Corrupt(s, i, c) == IF i = 0 THEN s ELSE [s EXCEPT ![i] = c]

Call_b64w_decode ==
    /\ pc = "encoded"
    /\ op = "modp_b64w_encode"
    /\ \E i \in 0..ret, c \in BadB64Bytes :
          LET s == Corrupt(Text, i, c)
          IN  Call("modp_b64w_decode", s, modp_b64w_decode(s),
                   IF i = 0 THEN op ELSE "corrupted", input, "done")

Call_b64w_decode_raw ==
    /\ pc = "idle"
    /\ \E s \in SeqsUpTo(B64Bytes, MaxB64Len) :
          Call("modp_b64w_decode", s, modp_b64w_decode(s), "none", <<>>, "done")

\* modp::b64w_decode(s): dest is the string s after the call
Cpp_b64w_decode ==
    /\ pc = "encoded"
    /\ op = "b64w_encode"
    /\ \E i \in 0..ret, c \in BadB64Bytes :
          LET s == Corrupt(Text, i, c)
              x == b64w_decode(s)
          IN  Call("b64w_decode", s, [dest |-> x, ret |-> Len(x)],
                   IF i = 0 THEN op ELSE "corrupted", input, "done")

\* entry of modp_burl_decode(dest, src, len)
Enter_burl_decode(s, from, org) ==
    /\ op' = "modp_burl_decode"
    /\ input' = s
    /\ prev' = from
    /\ orig' = org
    /\ dest' = <<>>
    /\ src' = 0
    /\ log' = <<>>
    /\ rd' = {}
    /\ idx' = {}
    /\ pc' = "decoding"
    /\ UNCHANGED <<charSigned, ret>>

Call_burl_decode ==
    /\ pc = "encoded"
    /\ op \in {"modp_burl_encode", "modp_burl_min_encode"}
    /\ Enter_burl_decode(Text, op, input)

Call_burl_decode_raw ==
    /\ pc = "idle"
    /\ \E s \in SeqsUpTo(SrcBytes, MaxSrcLen) : Enter_burl_decode(s, "none", <<>>)

\* while (src < srcendloop) ... case '+'
LoopPlus ==
    /\ pc = "decoding"
    /\ src < srcendloop
    /\ Cur = 43
    /\ Step("main", 1, 32, {src}, {})

\* case '%'
LoopPercent ==
    /\ pc = "decoding"
    /\ src < srcendloop
    /\ Cur = 37
    /\ \E b1 \in Bytes(src + 1), b2 \in Bytes(src + 2) :
         LET i1 == HexIndex(b1)
             i2 == HexIndex(b2)
         IN  \E v1 \in HexLookup(i1), v2 \in HexLookup(i2) :
               LET e == PercentStep(HexPair(v1, v2))
               IN  Step("main", e.n, e.out, {src, src + 1, src + 2}, {i1, i2})

\* case '%', where the read outside gsHexDecodeMap is outside the process
LoopPercentFault ==
    /\ pc = "decoding"
    /\ src < srcendloop
    /\ Cur = 37
    /\ \E b1 \in Bytes(src + 1), b2 \in Bytes(src + 2) :
         LET i1 == HexIndex(b1)
             i2 == HexIndex(b2)
         IN  /\ ~InTable(i1) \/ ~InTable(i2)
             /\ pc' = "fault"
             /\ rd' = rd \cup {src, src + 1, src + 2}
             /\ idx' = idx \cup {i1, i2}
    /\ UNCHANGED <<charSigned, op, prev, orig, input, dest, ret, src, log>>

\* default
LoopDefault ==
    /\ pc = "decoding"
    /\ src < srcendloop
    /\ Cur \notin {43, 37}
    /\ Step("main", 1, Cur, {src}, {})

\* while (src < srcend) ... case '+'
TailPlus ==
    /\ pc = "decoding"
    /\ ~(src < srcendloop)
    /\ src < srcend
    /\ Cur = 43
    /\ Step("tail", 1, 32, {src}, {})

\* default
TailDefault ==
    /\ pc = "decoding"
    /\ ~(src < srcendloop)
    /\ src < srcend
    /\ Cur # 43
    /\ Step("tail", 1, Cur, {src}, {})

\* *dest = '\0'; return dest - deststart
Return_burl_decode ==
    /\ pc = "decoding"
    /\ ~(src < srcendloop)
    /\ ~(src < srcend)
    /\ dest' = Append(dest, 0)
    /\ ret' = RetValue(dest)
    /\ pc' = "done"
    /\ UNCHANGED <<charSigned, op, prev, orig, input, src, log, rd, idx>>

Next ==
    \/ Call_burl_encode
    \/ Call_burl_min_encode
    \/ Call_burl_encode_strlen
    \/ Call_burl_min_encode_strlen
    \/ Call_b64w_encode
    \/ Cpp_b64w_encode
    \/ Call_b64w_decode
    \/ Call_b64w_decode_raw
    \/ Cpp_b64w_decode
    \/ Call_burl_decode
    \/ Call_burl_decode_raw
    \/ LoopPlus
    \/ LoopPercent
    \/ LoopPercentFault
    \/ LoopDefault
    \/ TailPlus
    \/ TailDefault
    \/ Return_burl_decode

Spec == Init /\ [][Next]_vars

(***************************************************************************)
(* The properties.                                                         *)
(***************************************************************************)
BurlEncoders == {"modp_burl_encode", "modp_burl_min_encode"}

\* the bytes written before the terminator (or all of them, when the
\* function failed and wrote none that count)
Written == IF ret < 0 THEN <<>> ELSE SubSeq(dest, 1, ret)

IsHex(c) == gsHexDecodeMap(c) < 16

\* the number of padding characters of s
PadCount(s) == Cardinality({i \in 1..Len(s) : s[i] = CHARPAD})

\* C1: modp_burl_decode of what modp_burl_encode or modp_burl_min_encode
\* wrote for b returns Len(b) and writes exactly b, and always returns.
C1_BurlRoundTrip ==
    (op = "modp_burl_decode" /\ prev \in BurlEncoders) =>
        /\ pc # "fault"
        /\ pc = "done" => (ret = Len(orig) /\ Written = orig)

C1_Witness ==
    /\ pc = "done"
    /\ op = "modp_burl_decode"
    /\ prev = "modp_burl_min_encode"
    /\ Len(orig) = 3
    /\ orig[1] = 43 /\ orig[2] = 255 /\ orig[3] = 126
    /\ Written = orig

\* C2: modp_b64w_decode of what modp_b64w_encode wrote for b succeeds,
\* returns Len(b) and writes exactly b, whatever Len(b) % 3 is.
C2_B64RoundTrip ==
    (pc = "done" /\ op = "modp_b64w_decode" /\ prev = "modp_b64w_encode") =>
        /\ ret >= 0
        /\ ret = Len(orig)
        /\ Written = orig

C2_Witness ==
    /\ pc = "done"
    /\ op = "modp_b64w_decode"
    /\ prev = "modp_b64w_encode"
    /\ Len(orig) = 4
    /\ orig[1] = 255 /\ orig[4] = 126
    /\ Len(input) = 8
    /\ Written = orig

\* C3: the value modp_burl_encode returns is modp_burl_encode_strlen of its
\* input, the value modp_burl_min_encode returns is
\* modp_burl_min_encode_strlen of its input, and that value is the number
\* of bytes written before the terminator.
C3_EncodeLengthExact ==
    (pc = "encoded" /\ op \in BurlEncoders) =>
        /\ op = "modp_burl_encode" => ret = modp_burl_encode_strlen(input)
        /\ op = "modp_burl_min_encode" => ret = modp_burl_min_encode_strlen(input)
        /\ Len(dest) = ret + 1
        /\ dest[ret + 1] = 0
        /\ \A i \in 1..ret : dest[i] # 0

C3_Witness ==
    /\ pc = "encoded"
    /\ op = "modp_burl_encode"
    /\ Len(input) = 3
    /\ input[1] = 65 /\ input[2] = 32 /\ input[3] = 0
    /\ ret = 7

\* C4: modp_b64w_decode of an input holding, at any position, a character
\* outside the web-safe alphabet returns -1, and modp::b64w_decode leaves
\* the string empty.
C4_B64BadCharFails ==
    (pc = "done" /\ \E i \in 1..Len(input) : ~InAlphabet(input[i])) =>
        /\ op = "modp_b64w_decode" => ret = -1
        /\ op = "b64w_decode" => dest = <<>>

C4_Witness ==
    /\ pc = "done"
    /\ op = "modp_b64w_decode"
    /\ prev = "corrupted"
    /\ Len(input) = 8
    /\ input[2] = 47
    /\ \A i \in {1, 3, 4, 5, 6, 7, 8} : InAlphabet(input[i])
    /\ ret = -1

C6_BadEscapeIsLiteral ==
    op = "modp_burl_decode" =>
        /\ pc # "fault"
        /\ \A k \in 1..Len(log) :
              LET p == log[k].pos
              IN  (/\ p < Len(input) - 2
                   /\ input[p + 1] = 37
                   /\ ~(IsHex(input[p + 2]) /\ IsHex(input[p + 3])))
                  => (log[k].n = 1 /\ log[k].out = 37)
        /\ (pc = "done" /\ input = <<37, 122, 122>>) =>
              (ret = 3 /\ dest = <<37, 122, 122, 0>>)

\* C7: modp_burl_decode reads only the offsets 0..len-1 of its input and
\* its read position never passes len; a '%' at one of the last two
\* offsets is handled by the second loop and written as '%'.
C7_TailSafety ==
    op = "modp_burl_decode" =>
        /\ rd \subseteq 0..(Len(input) - 1)
        /\ src \in 0..Len(input)
        /\ pc = "done" =>
              \A p \in 0..(Len(input) - 1) :
                  (p >= Len(input) - 2 /\ input[p + 1] = 37) =>
                      \E k \in 1..Len(log) :
                          /\ log[k].pos = p
                          /\ log[k].loop = "tail"
                          /\ log[k].n = 1
                          /\ log[k].out = 37

C7_Witness ==
    /\ pc = "done"
    /\ op = "modp_burl_decode"
    /\ Len(input) = 2
    /\ input[1] = 37 /\ input[2] = 65
    /\ dest = <<37, 65, 0>>

\* C8: modp_burl_min_encode_strlen of an input is at most
\* modp_burl_encode_strlen of it: a byte the full table gives as literal
\* the minimal table gives as literal too.
C8_MinNotLonger ==
    (pc = "done" /\ op = "modp_burl_min_encode_strlen") =>
        /\ ret <= modp_burl_encode_strlen(input)
        /\ \A i \in 1..Len(input) :
              gsUrlEncodeMap(input[i]) # 0 => gsUrlEncodeMinMap(input[i]) # 0

C8_Witness ==
    /\ pc = "done"
    /\ op = "modp_burl_min_encode_strlen"
    /\ Len(input) = 2
    /\ input[1] = 126 /\ input[2] = 65
    /\ ret = 2
    /\ modp_burl_encode_strlen(input) = 4

\* C9: every index modp_burl_decode uses into gsHexDecodeMap is one of
\* 0..255, also for bytes 128..255 after a '%'.
C9_HexIndexInTable ==
    op = "modp_burl_decode" => \A i \in idx : InTable(i)

\* C10: modp_burl_decode returns a value in 0..len: every iteration
\* consumes 1 or 3 bytes and writes 1, so what it writes, terminator
\* included, is at most len + 1 bytes.
C10_DecodeNotLonger ==
    op = "modp_burl_decode" =>
        /\ \A k \in 1..Len(log) : log[k].n \in {1, 3}
        /\ pc = "decoding" => Len(dest) = Len(log)
        /\ Len(log) <= src
        /\ src <= Len(input)
        /\ pc = "done" =>
              /\ ret \in 0..Len(input)
              /\ ret = Len(log)
              /\ Len(dest) = ret + 1
              /\ Len(dest) <= Len(input) + 1

C10_Witness ==
    /\ pc = "done"
    /\ op = "modp_burl_decode"
    /\ input = <<37, 65, 65, 43>>
    /\ ret = 2
    /\ dest = <<170, 32, 0>>

=============================================================================
